---- MODULE Spec2Model ----
(***************************************************************************)
(* Model of sem6/compiler design/lexical_analyzer.py: the LexicalAnalyzer  *)
(* object (source, position, line, column, tokens), its regex-driven       *)
(* analyze() loop, and the ordered token_specs alternation.                *)
(*                                                                         *)
(* A source text is a sequence of one-character strings; offsets are       *)
(* 0-based as in Python, so the character at offset p is s[p + 1].         *)
(* Characters are ASCII; Unicode digits accepted by \d are out of range.   *)
(***************************************************************************)
EXTENDS Integers, Sequences, FiniteSets, TLC

\* ------------------------------------------------------------------------
\* Bounds of the model
\* ------------------------------------------------------------------------
MaxPieces == 3
MaxCalls == 2
MaxLivePieces == 2

\* ------------------------------------------------------------------------
\* Character classes used by the patterns of token_specs
\* ------------------------------------------------------------------------
Digits == {"0", "1", "2", "3", "4", "5", "6", "7", "8", "9"}

LowerCase == {"a", "b", "c", "d", "e", "f", "g", "h", "i", "j", "k", "l", "m",
              "n", "o", "p", "q", "r", "s", "t", "u", "v", "w", "x", "y", "z"}

UpperCase == {"A", "B", "C", "D", "E", "F", "G", "H", "I", "J", "K", "L", "M",
              "N", "O", "P", "Q", "R", "S", "T", "U", "V", "W", "X", "Y", "Z"}

IdentStart == LowerCase \cup UpperCase \cup {"_"}

IdentChars == IdentStart \cup Digits

Blanks == {" ", "\t"}

\* ------------------------------------------------------------------------
\* TokenType, keywords, token_specs
\* ------------------------------------------------------------------------
\* variant: the enumeration without its COMMENT member
TokenType_NoComment ==
             {"KEYWORD", "IDENTIFIER", "INTEGER", "FLOAT", "STRING",
              "PLUS", "MINUS", "MULTIPLY", "DIVIDE", "ASSIGN", "EQUAL",
              "NOT_EQUAL", "LESS_THAN", "GREATER_THAN", "LESS_EQUAL",
              "GREATER_EQUAL", "LPAREN", "RPAREN", "LBRACE", "RBRACE",
              "SEMICOLON", "COMMA", "WHITESPACE", "EOF", "UNKNOWN"}

TokenType == {"KEYWORD", "IDENTIFIER", "INTEGER", "FLOAT", "STRING",
              "PLUS", "MINUS", "MULTIPLY", "DIVIDE", "ASSIGN", "EQUAL",
              "NOT_EQUAL", "LESS_THAN", "GREATER_THAN", "LESS_EQUAL",
              "GREATER_EQUAL", "LPAREN", "RPAREN", "LBRACE", "RBRACE",
              "SEMICOLON", "COMMA", "COMMENT", "WHITESPACE", "EOF", "UNKNOWN"}

keywords == {<<"i", "f">>, <<"e", "l", "s", "e">>, <<"w", "h", "i", "l", "e">>,
             <<"f", "o", "r">>, <<"i", "n", "t">>, <<"f", "l", "o", "a", "t">>,
             <<"r", "e", "t", "u", "r", "n">>, <<"v", "o", "i", "d">>,
             <<"m", "a", "i", "n">>, <<"p", "r", "i", "n", "t">>,
             <<"c", "l", "a", "s", "s">>, <<"p", "u", "b", "l", "i", "c">>}

\* variant: the one-character operators are listed before the two-character
\* ones
token_specs_SingleFirst ==
               <<"COMMENT", "FLOAT", "INTEGER", "STRING", "IDENTIFIER",
                 "ASSIGN", "PLUS", "MINUS", "MULTIPLY", "DIVIDE",
                 "LESS_THAN", "GREATER_THAN",
                 "GREATER_EQUAL", "LESS_EQUAL", "EQUAL", "NOT_EQUAL",
                 "LPAREN", "RPAREN", "LBRACE",
                 "RBRACE", "SEMICOLON", "COMMA", "WHITESPACE", "NEWLINE">>

\* variant: INTEGER is listed before FLOAT
token_specs_IntegerFirst ==
               <<"COMMENT", "INTEGER", "FLOAT", "STRING", "IDENTIFIER",
                 "GREATER_EQUAL", "LESS_EQUAL", "EQUAL", "NOT_EQUAL",
                 "ASSIGN", "PLUS", "MINUS", "MULTIPLY", "DIVIDE",
                 "LESS_THAN", "GREATER_THAN", "LPAREN", "RPAREN", "LBRACE",
                 "RBRACE", "SEMICOLON", "COMMA", "WHITESPACE", "NEWLINE">>

\* variant: DIVIDE is listed before COMMENT
token_specs_DivideFirst ==
               <<"DIVIDE", "COMMENT", "FLOAT", "INTEGER", "STRING", "IDENTIFIER",
                 "GREATER_EQUAL", "LESS_EQUAL", "EQUAL", "NOT_EQUAL",
                 "ASSIGN", "PLUS", "MINUS", "MULTIPLY",
                 "LESS_THAN", "GREATER_THAN", "LPAREN", "RPAREN", "LBRACE",
                 "RBRACE", "SEMICOLON", "COMMA", "WHITESPACE", "NEWLINE">>

\* The group names in the order in which the alternation lists them.
token_specs == <<"COMMENT", "FLOAT", "INTEGER", "STRING", "IDENTIFIER",
                 "GREATER_EQUAL", "LESS_EQUAL", "EQUAL", "NOT_EQUAL",
                 "ASSIGN", "PLUS", "MINUS", "MULTIPLY", "DIVIDE",
                 "LESS_THAN", "GREATER_THAN", "LPAREN", "RPAREN", "LBRACE",
                 "RBRACE", "SEMICOLON", "COMMA", "WHITESPACE", "NEWLINE">>

\* The literal text of the fixed-text groups.
FixedText == [GREATER_EQUAL |-> <<">", "=">>, LESS_EQUAL |-> <<"<", "=">>,
              EQUAL |-> <<"=", "=">>, NOT_EQUAL |-> <<"!", "=">>,
              ASSIGN |-> <<"=">>, PLUS |-> <<"+">>, MINUS |-> <<"-">>,
              MULTIPLY |-> <<"*">>, DIVIDE |-> <<"/">>,
              LESS_THAN |-> <<"<">>, GREATER_THAN |-> <<">">>,
              LPAREN |-> <<"(">>, RPAREN |-> <<")">>, LBRACE |-> <<"{">>,
              RBRACE |-> <<"}">>, SEMICOLON |-> <<";">>, COMMA |-> <<",">>,
              NEWLINE |-> <<"\n">>]

\* ------------------------------------------------------------------------
\* Regex matching: the length each group matches at offset p (0: no match)
\* ------------------------------------------------------------------------
At(s, p) == IF p >= 0 /\ p < Len(s) THEN s[p + 1] ELSE "<none>"

Slice(s, a, b) == SubSeq(s, a + 1, b)

\* Length of the longest run of characters of class cls starting at p.
RECURSIVE Run(_, _, _)
Run(s, p, cls) == IF p < Len(s) /\ s[p + 1] \in cls
                  THEN 1 + Run(s, p + 1, cls)
                  ELSE 0

\* Length of the run of characters other than c starting at p.
RECURSIVE RunNot(_, _, _)
RunNot(s, p, c) == IF p < Len(s) /\ s[p + 1] # c
                   THEN 1 + RunNot(s, p + 1, c)
                   ELSE 0

\* Least q >= p with s[q] = a and s[q+1] = b, or -1 when there is none.
RECURSIVE FindPair(_, _, _, _)
FindPair(s, p, a, b) == IF p + 1 >= Len(s) THEN -1
                        ELSE IF s[p + 1] = a /\ s[p + 2] = b THEN p
                        ELSE FindPair(s, p + 1, a, b)

\* //.*|/\*[\s\S]*?\*/
MatchCOMMENT(s, p) ==
    IF At(s, p) = "/" /\ At(s, p + 1) = "/"
    THEN 2 + RunNot(s, p + 2, "\n")
    ELSE IF At(s, p) = "/" /\ At(s, p + 1) = "*"
              /\ FindPair(s, p + 2, "*", "/") >= 0
         THEN FindPair(s, p + 2, "*", "/") + 2 - p
         ELSE 0

\* \d+\.\d+
MatchFLOAT(s, p) ==
    LET n == Run(s, p, Digits)
        m == Run(s, p + n + 1, Digits)
    IN  IF n > 0 /\ At(s, p + n) = "." /\ m > 0 THEN n + 1 + m ELSE 0

\* \d+
MatchINTEGER(s, p) == Run(s, p, Digits)

\* variant: "[^"]*("|$), a string may also run to the end of the text
MatchSTRING_Lenient(s, p) ==
    LET n == RunNot(s, p + 1, "\"")
    IN  IF At(s, p) # "\"" THEN 0
        ELSE IF At(s, p + 1 + n) = "\"" THEN n + 2 ELSE n + 1

\* "[^"]*"
MatchSTRING(s, p) ==
    LET n == RunNot(s, p + 1, "\"")
    IN  IF At(s, p) = "\"" /\ At(s, p + 1 + n) = "\"" THEN n + 2 ELSE 0

\* [a-zA-Z_][a-zA-Z0-9_]*
MatchIDENTIFIER(s, p) ==
    IF At(s, p) \in IdentStart THEN 1 + Run(s, p + 1, IdentChars) ELSE 0

\* [ \t]+
MatchWHITESPACE(s, p) == Run(s, p, Blanks)

\* the fixed-text groups: >= <= == != = + - * / < > ( ) { } ; , \n
MatchFixed(name, s, p) ==
    LET t == FixedText[name]
    IN  IF p + Len(t) <= Len(s) /\ Slice(s, p, p + Len(t)) = t
        THEN Len(t) ELSE 0

MatchLen(name, s, p) ==
    CASE name = "COMMENT"    -> MatchCOMMENT(s, p)
      [] name = "FLOAT"      -> MatchFLOAT(s, p)
      [] name = "INTEGER"    -> MatchINTEGER(s, p)
      [] name = "STRING"     -> MatchSTRING(s, p)
      [] name = "IDENTIFIER" -> MatchIDENTIFIER(s, p)
      [] name = "WHITESPACE" -> MatchWHITESPACE(s, p)
      [] OTHER               -> MatchFixed(name, s, p)

\* The alternation at offset p: index in token_specs of the first group that
\* matches there, 0 when no group matches.
RECURSIVE FirstGroup(_, _, _)
FirstGroup(s, p, i) ==
    IF i > Len(token_specs) THEN 0
    ELSE IF MatchLen(token_specs[i], s, p) > 0 THEN i
    ELSE FirstGroup(s, p, i + 1)

\* The match object of a search that found nothing.
NoMatch == [start |-> -1, end |-> -1, group |-> "<none>", value |-> << >>]

\* variant: the end of a match is taken one character short
RECURSIVE NextMatch_EndShort(_, _)
NextMatch_EndShort(s, p) ==
    IF p >= Len(s) THEN NoMatch
    ELSE LET g == FirstGroup(s, p, 1)
         IN  IF g = 0 THEN NextMatch_EndShort(s, p + 1)
             ELSE LET n == MatchLen(token_specs[g], s, p)
                  IN  [start |-> p, end |-> p + n - 1, group |-> token_specs[g],
                       value |-> Slice(s, p, p + n)]

\* finditer: the next match at or after offset p, with its start(), end(),
\* lastgroup and group(); NoMatch when the rest of the text holds no match.
\* Offsets where no group matches are passed over by the search.
RECURSIVE NextMatch(_, _)
NextMatch(s, p) ==
    IF p >= Len(s) THEN NoMatch
    ELSE LET g == FirstGroup(s, p, 1)
         IN  IF g = 0 THEN NextMatch(s, p + 1)
             ELSE LET n == MatchLen(token_specs[g], s, p)
                  IN  [start |-> p, end |-> p + n, group |-> token_specs[g],
                       value |-> Slice(s, p, p + n)]

\* ------------------------------------------------------------------------
\* Source texts the analyzer is constructed with
\* ------------------------------------------------------------------------
Fragments == {<<"x">>, <<"1">>, <<".">>, <<"\"">>, <<"/">>, <<"*">>,
              <<"\n">>, <<" ">>, <<"=">>, <<"!">>, <<"/", "*">>, <<"*", "/">>}

\* All concatenations of at most n fragments.
RECURSIVE Texts(_)
Texts(n) == IF n = 0 THEN {<< >>}
            ELSE LET prev == Texts(n - 1)
                 IN  prev \cup {t \o f : t \in prev, f \in Fragments}

ExDecl == <<"i", "n", "t", " ", "x", " ", "=", " ", "1", "0", ";">>

ExTwoLines == <<"x", "\n", "=", "1", ";">>

ExTrailing == <<"i", "n", "t", " ", "x", " ", ";", " ", "/", "/", " ", "t", "r", "a", "i", "l", "i", "n", "g", "\n">>

ExTrailingDot == <<"1", "0", ".">>

ExFloat == <<"1", "0", ".", "5">>

ExGreaterEqual == <<">", "=">>

ExGreaterAssign == <<">", " ", "=">>

ExLessEqual == <<"<", "=">>

ExBlockThenX == <<"/", "*", "\n", "*", "/", "x">>

ExOpenString == <<"\"", "a", "b">>

ExOpenBlock == <<"/", "*", "a", "b">>

ExStringTwoLines == <<"\"", "a", "\n", "b", "\"", " ", "y">>

ExCarriageReturn == <<"\r", "\n", " ", "x">>

ExAt == <<"@", "x">>

ExTab == <<"\t", "x">>

Examples == {ExDecl, ExTwoLines, ExTrailing, ExTrailingDot, ExFloat, ExGreaterEqual, ExGreaterAssign, ExLessEqual, ExBlockThenX, ExOpenString, ExOpenBlock, ExStringTwoLines, ExCarriageReturn, ExAt, ExTab}

\* Every keyword alone, and every keyword with one identifier character appended.
KeywordTexts == keywords \cup {k \o <<c>> : k \in keywords, c \in IdentChars}

Sources == Texts(MaxPieces) \cup Examples \cup KeywordTexts

\* ------------------------------------------------------------------------
\* State of one LexicalAnalyzer
\* ------------------------------------------------------------------------
\* self.source
VARIABLE source

\* self.position
VARIABLE position

\* self.line
VARIABLE line

\* self.column
VARIABLE column

\* self.tokens
VARIABLE tokens

\* "ready": constructed; "loop": inside analyze(); "returned": analyze() has returned
VARIABLE pc

\* offset at which finditer resumed its search for the current match
VARIABLE iter

\* the loop variable: the match the iterator produced, NoMatch when exhausted
VARIABLE match

\* number of analyze() calls made so far
VARIABLE calls

\* history: for each token, the offset its match began at
VARIABLE starts

\* history: for each token, the WHITESPACE and NEWLINE matches skipped since the token before it
VARIABLE skips

\* history: matches skipped since the last token
VARIABLE pending

\* history: the token list as the first analyze() call returned it
VARIABLE firstReturned

\* what print_tokens() printed if it is the operation just performed: the
\* number of rows and the 'Total Tokens' number; NoReport otherwise
VARIABLE report

vars == <<source, position, line, column, tokens, pc, iter, match, calls,
          starts, skips, pending, firstReturned, report>>

NoReport == [rows |-> -1, total |-> -1, printed |-> FALSE]

Token(type, value, l, c) ==
    [type |-> type, value |-> value, line |-> l, column |-> c]

\* variant: the keyword test looks at a prefix of the lexeme
Classify_Prefix(value) ==
    IF \E k \in keywords : Len(k) <= Len(value) /\ SubSeq(value, 1, Len(k)) = k
    THEN "KEYWORD" ELSE "IDENTIFIER"

\* the keyword test of the IDENTIFIER branch
Classify(value) == IF value \in keywords THEN "KEYWORD" ELSE "IDENTIFIER"

\* TokenType[token_type], UNKNOWN on KeyError
TypeOf(group) == IF group \in TokenType THEN group ELSE "UNKNOWN"

\* variant: the column is left where it was
AdvanceColumn_Stuck(c, value) == c

\* self.column += len(token_value)
AdvanceColumn(c, value) == c + Len(value)

\* current_char(): the character at self.position, None at or past the end
current_char == IF position < Len(source) THEN source[position + 1] ELSE "None"

\* __init__
Init == /\ source \in Sources
        /\ position = 0
        /\ line = 1
        /\ column = 1
        /\ tokens = << >>
        /\ pc = "ready"
        /\ iter = 0
        /\ match = NoMatch
        /\ calls = 0
        /\ starts = << >>
        /\ skips = << >>
        /\ pending = << >>
        /\ firstReturned = << >>
        /\ report = NoReport

\* analyze() is entered: finditer starts its search at offset 0 and yields
\* the first match.  Nothing of the object is reset.
AnalyzeCall ==
    /\ pc \in {"ready", "returned"}
    /\ calls < MaxCalls
    /\ pc' = "loop"
    /\ iter' = 0
    /\ match' = NextMatch(source, 0)
    /\ calls' = calls + 1
    /\ pending' = << >>
    /\ report' = NoReport
    /\ UNCHANGED <<source, position, line, column, tokens, starts, skips, firstReturned>>

\* loop body, token_type == 'WHITESPACE'; then the iterator yields again
SkipWhitespace ==
    /\ pc = "loop"
    /\ match.group = "WHITESPACE"
    /\ column' = AdvanceColumn(column, match.value)
    /\ iter' = match.end
    /\ match' = NextMatch(source, match.end)
    /\ pending' = pending \o match.value
    /\ UNCHANGED <<source, position, line, tokens, pc, calls, starts, skips, firstReturned, report>>

\* loop body, token_type == 'NEWLINE'; then the iterator yields again
HandleNewline ==
    /\ pc = "loop"
    /\ match.group = "NEWLINE"
    /\ line' = line + 1
    /\ column' = 1
    /\ iter' = match.end
    /\ match' = NextMatch(source, match.end)
    /\ pending' = pending \o match.value
    /\ UNCHANGED <<source, position, tokens, pc, calls, starts, skips, firstReturned, report>>

\* variant: the new token is stored over the last one instead of appended
CreateToken_Overwrite ==
    /\ pc = "loop"
    /\ match.group \notin {"WHITESPACE", "NEWLINE", "<none>"}
    /\ LET token_type  == match.group
           token_value == match.value
           token == IF token_type = "IDENTIFIER"
                    THEN Token(Classify(token_value), token_value, line, column)
                    ELSE Token(TypeOf(token_type), token_value, line, column)
       IN  /\ tokens' = IF tokens = << >> THEN <<token>>
                        ELSE [tokens EXCEPT ![Len(tokens)] = token]
           /\ column' = AdvanceColumn(column, token_value)
    /\ starts' = IF starts = << >> THEN <<match.start>>
                 ELSE [starts EXCEPT ![Len(starts)] = match.start]
    /\ skips' = IF skips = << >> THEN <<pending>>
                ELSE [skips EXCEPT ![Len(skips)] = pending]
    /\ pending' = << >>
    /\ iter' = match.end
    /\ match' = NextMatch(source, match.end)
    /\ UNCHANGED <<source, position, line, pc, calls, firstReturned, report>>

\* loop body, every other group: create the token, append it, advance the
\* column; then the iterator yields again
CreateToken ==
    /\ pc = "loop"
    /\ match.group \notin {"WHITESPACE", "NEWLINE", "<none>"}
    /\ LET token_type  == match.group
           token_value == match.value
           token == IF token_type = "IDENTIFIER"
                    THEN Token(Classify(token_value), token_value, line, column)
                    ELSE Token(TypeOf(token_type), token_value, line, column)
       IN  /\ tokens' = Append(tokens, token)
           /\ column' = AdvanceColumn(column, token_value)
    /\ starts' = Append(starts, match.start)
    /\ skips' = Append(skips, pending)
    /\ pending' = << >>
    /\ iter' = match.end
    /\ match' = NextMatch(source, match.end)
    /\ UNCHANGED <<source, position, line, pc, calls, firstReturned, report>>

\* the iterator is exhausted: append the EOF token and return self.tokens
AppendEOF ==
    /\ pc = "loop"
    /\ match = NoMatch
    /\ tokens' = Append(tokens, Token("EOF", << >>, line, column))
    /\ starts' = Append(starts, Len(source))
    /\ skips' = Append(skips, pending)
    /\ pending' = << >>
    /\ iter' = Len(source)
    /\ pc' = "returned"
    /\ firstReturned' = IF calls = 1 THEN tokens' ELSE firstReturned
    /\ UNCHANGED <<source, position, line, column, match, calls, report>>

\* print_tokens(): one row per token that is not EOF, then the total
PrintTokens ==
    /\ pc \in {"ready", "returned"}
    /\ report' = [rows |-> Cardinality({i \in 1..Len(tokens) : tokens[i].type # "EOF"}),
                  total |-> Len(tokens) - 1,
                  printed |-> TRUE]
    /\ UNCHANGED <<source, position, line, column, tokens, pc, iter, match,
                   calls, starts, skips, pending, firstReturned>>

Next == \/ AnalyzeCall
        \/ SkipWhitespace
        \/ HandleNewline
        \/ CreateToken
        \/ AppendEOF
        \/ PrintTokens

Spec == Init /\ [][Next]_vars

\* one iteration of the for loop of analyze(), or its exit
LoopStep == SkipWhitespace \/ HandleNewline \/ CreateToken \/ AppendEOF

\* analyze() is synchronous and single-threaded: once entered, its loop keeps
\* stepping until it returns.  The fair specification runs on the shorter
\* source texts.
LiveSources == Texts(MaxLivePieces) \cup Examples

LiveInit == Init /\ source \in LiveSources

LiveSpec == LiveInit /\ [][Next]_vars /\ WF_vars(LoopStep)

TypeOK == /\ source \in Sources
          /\ position = 0
          /\ line \in Nat /\ column \in Nat
          /\ pc \in {"ready", "loop", "returned"}
          /\ iter \in 0..Len(source)
          /\ pc = "loop" => match = NextMatch(source, iter)
          /\ calls \in 0..MaxCalls
          /\ Len(starts) = Len(tokens) /\ Len(skips) = Len(tokens)
          /\ \A i \in 1..Len(tokens) : tokens[i].type \in TokenType
          /\ report.printed \in BOOLEAN
          /\ pc = "loop" => report = NoReport

\* ------------------------------------------------------------------------
\* Vocabulary of the properties
\* ------------------------------------------------------------------------
\* analyze() has returned for the first time on this object
FirstReturn == pc = "returned" /\ calls = 1

\* inside or after the first analyze() call
FirstCall == calls = 1

NonEOF == {i \in 1..Len(tokens) : tokens[i].type # "EOF"}

Types == [i \in 1..Len(tokens) |-> tokens[i].type]

Values == [i \in 1..Len(tokens) |-> tokens[i].value]

\* number of "\n" among the first n characters of s
RECURSIVE CountNL(_, _)
CountNL(s, n) == IF n = 0 THEN 0
                 ELSE CountNL(s, n - 1) + (IF s[n] = "\n" THEN 1 ELSE 0)

\* number of characters of s after its last "\n" among the first n
RECURSIVE TailLen(_, _)
TailLen(s, n) == IF n = 0 \/ s[n] = "\n" THEN 0 ELSE 1 + TailLen(s, n - 1)

\* 1-based line and column of offset p of the source
LineOf(p) == 1 + CountNL(source, p)

ColOf(p) == 1 + TailLen(source, p)

\* skips[1] \o value[1] \o ... \o skips[n] \o value[n]
RECURSIVE Rebuild(_)
Rebuild(n) == IF n = 0 THEN << >>
              ELSE Rebuild(n - 1) \o skips[n] \o tokens[n].value

\* The offsets the scan stands at: starts of matches and offsets that no
\* group matches at.
RECURSIVE ScanPoints(_, _)
ScanPoints(s, p) ==
    IF p >= Len(s) THEN {}
    ELSE IF FirstGroup(s, p, 1) > 0
         THEN {p} \cup ScanPoints(s, p + MatchLen(token_specs[FirstGroup(s, p, 1)], s, p))
         ELSE {p} \cup ScanPoints(s, p + 1)

LexLess(l1, c1, l2, c2) == l1 < l2 \/ (l1 = l2 /\ c1 < c2)

LexLeq(l1, c1, l2, c2) == l1 < l2 \/ (l1 = l2 /\ c1 <= c2)

\* ------------------------------------------------------------------------
\* Properties
\* ------------------------------------------------------------------------

\* C1 (Reconstruction): when the first analyze() call has returned, the
\* concatenation, in order, of each token's lexeme preceded by the ignorable
\* text skipped immediately before it is the source text: no character is
\* dropped and none is duplicated.
C1_Reconstruction ==
    FirstReturn => Rebuild(Len(tokens)) = source

\* C2 (Unrecognized character): a scan step taken at an offset where no
\* group of the alternation matches appends exactly one UNKNOWN token whose
\* lexeme is the single character at that offset, placed at the current
\* (line, column), and advances the column by one.
C2_UnknownEmitted ==
    [][(pc = "loop" /\ iter < Len(source) /\ FirstGroup(source, iter, 1) = 0)
         => /\ tokens' = Append(tokens,
                           Token("UNKNOWN", <<At(source, iter)>>, line, column))
            /\ column' = column + 1
            /\ line' = line]_vars

C4_PositionAccuracy ==
    FirstCall =>
       /\ \A i \in NonEOF : /\ tokens[i].line = LineOf(starts[i])
                            /\ tokens[i].column = ColOf(starts[i])
       /\ (source = ExDecl /\ pc = "returned")
            => /\ [i \in 1..Len(tokens) |-> tokens[i].column] = <<1, 5, 7, 9, 11, 12>>
               /\ \A i \in 1..Len(tokens) : tokens[i].line = 1

\* C5 (Multi-line tracking): a scan step whose match is a newline or a
\* comment containing one or more newlines increases line by the number of
\* newlines in the match and sets column to 1 plus the length of the part
\* of the match after its last newline.
C5_MultiLineTracking ==
    [][(/\ pc = "loop"
        /\ match.group \in {"NEWLINE", "COMMENT"}
        /\ CountNL(match.value, Len(match.value)) > 0)
         => /\ line' = line + CountNL(match.value, Len(match.value))
            /\ column' = 1 + TailLen(match.value, Len(match.value))]_vars

\* C6 (End marker): the list returned by the first analyze() call holds
\* exactly one EOF token, it is the last element, its lexeme is empty, and
\* its (line, column) is the position just past the last character of the
\* source.
C6_EndMarker ==
    FirstReturn =>
       /\ Cardinality({i \in 1..Len(tokens) : tokens[i].type = "EOF"}) = 1
       /\ tokens[Len(tokens)].type = "EOF"
       /\ tokens[Len(tokens)].value = << >>
       /\ tokens[Len(tokens)].line = line
       /\ tokens[Len(tokens)].column = column
       /\ tokens[Len(tokens)].line = LineOf(Len(source))
       /\ tokens[Len(tokens)].column = ColOf(Len(source))

\* An opening quote the scan stands at, with no quote after it.
OpenStringAt(p) ==
    /\ At(source, p) = "\""
    /\ \A q \in (p + 1)..(Len(source) - 1) : At(source, q) # "\""
    /\ p \in ScanPoints(source, 0)

\* A block-comment opener the scan stands at, with no */ after it.
OpenBlockAt(p) ==
    /\ At(source, p) = "/" /\ At(source, p + 1) = "*"
    /\ \A q \in (p + 2)..(Len(source) - 2) :
         ~(At(source, q) = "*" /\ At(source, q + 1) = "/")
    /\ p \in ScanPoints(source, 0)

C8_PositionMonotonicity ==
    FirstCall =>
       \A i, j \in 1..Len(tokens) :
          i < j =>
            /\ LexLeq(tokens[i].line, tokens[i].column,
                      tokens[j].line, tokens[j].column)
            /\ (i \in NonEOF /\ j \in NonEOF)
                 => /\ LexLess(tokens[i].line, tokens[i].column,
                               tokens[j].line, tokens[j].column)
                    /\ starts[i] + Len(tokens[i].value) <= starts[j]
                    /\ tokens[i].value =
                         Slice(source, starts[i], starts[i] + Len(tokens[i].value))

\* three or more tokens on two lines have been returned
C8_Witness ==
    /\ FirstReturn
    /\ Cardinality(NonEOF) >= 3
    /\ \E i, j \in NonEOF : tokens[i].line < tokens[j].line
    /\ \E i, j \in NonEOF : i # j /\ tokens[i].line = tokens[j].line

\* C9 (Keyword precedence): a keyword alone yields exactly one KEYWORD token
\* and then EOF; a keyword with one identifier character appended yields
\* exactly one IDENTIFIER token whose lexeme is the whole word.
C9_KeywordPrecedence ==
    FirstReturn =>
       /\ source \in keywords
            => tokens = <<Token("KEYWORD", source, 1, 1),
                          Token("EOF", << >>, 1, 1 + Len(source))>>
       /\ (/\ Len(source) > 1
           /\ SubSeq(source, 1, Len(source) - 1) \in keywords
           /\ source[Len(source)] \in IdentChars)
            => tokens = <<Token("IDENTIFIER", source, 1, 1),
                          Token("EOF", << >>, 1, 1 + Len(source))>>

\* "returns" has been analyzed as one identifier
C9_Witness ==
    /\ FirstReturn
    /\ source = <<"r", "e", "t", "u", "r", "n", "s">>
    /\ SubSeq(source, 1, 6) \in keywords
    /\ tokens[1].type = "IDENTIFIER"

TwoCharOps == {"GREATER_EQUAL", "LESS_EQUAL", "EQUAL", "NOT_EQUAL"}

\* the two-character operator whose text stands at offset p is op
OperatorTextAt(op, p) ==
    /\ At(source, p) = FixedText[op][1]
    /\ At(source, p + 1) = FixedText[op][2]

AllDigits(s) == Len(s) > 0 /\ \A i \in 1..Len(s) : s[i] \in Digits

\* the text is digits+ "." digits+
FloatForm(s) ==
    \E k \in 2..(Len(s) - 1) :
       /\ s[k] = "."
       /\ \A i \in 1..(k - 1) : s[i] \in Digits
       /\ \A i \in (k + 1)..Len(s) : s[i] \in Digits

\* C11 (Greedy float matching): a text of the form digits+ "." digits+
\* yields exactly one FLOAT token whose lexeme is the whole text, then EOF;
\* a text of digits only yields exactly one INTEGER token, then EOF.
C11_GreedyFloat ==
    FirstReturn =>
       /\ FloatForm(source)
            => tokens = <<Token("FLOAT", source, 1, 1),
                          Token("EOF", << >>, 1, 1 + Len(source))>>
       /\ AllDigits(source)
            => tokens = <<Token("INTEGER", source, 1, 1),
                          Token("EOF", << >>, 1, 1 + Len(source))>>

\* "10.5" has been analyzed as one FLOAT token
C11_Witness ==
    /\ FirstReturn
    /\ source = ExFloat
    /\ FloatForm(source)
    /\ tokens[1].type = "FLOAT"

\* C12 (Totality and termination): every iteration of the scan moves the
\* iterator forward by at least one character and never past the end of the
\* text, every analyze() call that was entered returns, and when it has
\* returned the iterator stands at the end of the text and the token list is
\* a non-empty sequence of tokens.
C12_Termination ==
    /\ [][(pc = "loop" /\ match # NoMatch)
            => (iter' >= iter + 1 /\ iter' <= Len(source))]_vars
    /\ [](pc = "returned"
            => /\ iter = Len(source)
               /\ Len(tokens) >= 1
               /\ \A i \in 1..Len(tokens) : tokens[i].type \in TokenType)
    /\ (pc = "loop") ~> (pc = "returned")

\* a text made only of characters no group matches has been analyzed
C12_Witness ==
    /\ FirstReturn
    /\ source = <<".", "!">>
    /\ iter = Len(source)
    /\ Len(tokens) = 1

\* C13 (No emitted token spans a newline): the lexeme of every token in the
\* token list holds no newline character (string literals included), so no
\* appended token stands for text on more than one line.
C13_NoNewlineInLexeme ==
    \A i \in 1..Len(tokens) :
       \A k \in 1..Len(tokens[i].value) : tokens[i].value[k] # "\n"

\* The rules of the scanner and the precedence that breaks ties between them:
\* comment > float > integer > string > identifier > two-character operators
\* > one-character operators and delimiters > whitespace > newline.
Groups == {"COMMENT", "FLOAT", "INTEGER", "STRING", "IDENTIFIER",
           "GREATER_EQUAL", "LESS_EQUAL", "EQUAL", "NOT_EQUAL",
           "ASSIGN", "PLUS", "MINUS", "MULTIPLY", "DIVIDE",
           "LESS_THAN", "GREATER_THAN", "LPAREN", "RPAREN", "LBRACE",
           "RBRACE", "SEMICOLON", "COMMA", "WHITESPACE", "NEWLINE"}

Rank(g) == CASE g = "COMMENT"    -> 1
             [] g = "FLOAT"      -> 2
             [] g = "INTEGER"    -> 3
             [] g = "STRING"     -> 4
             [] g = "IDENTIFIER" -> 5
             [] g \in TwoCharOps -> 6
             [] g = "WHITESPACE" -> 8
             [] g = "NEWLINE"    -> 9
             [] OTHER            -> 7

\* the greatest length any rule matches at offset p
LongestAt(s, p) ==
    CHOOSE n \in {MatchLen(g, s, p) : g \in Groups} :
       \A g \in Groups : MatchLen(g, s, p) <= n

\* C14 (Longest match with fixed precedence): the match the iterator yields
\* is that of the rule an explicit longest-match scanner chooses at the
\* match's start: its length is the greatest length any rule matches there,
\* and every other rule matching that length there has lower precedence.
C14_LongestMatch ==
    (pc = "loop" /\ match # NoMatch) =>
       LET best == LongestAt(source, match.start)
       IN  /\ match.end - match.start = best
           /\ \A g \in Groups :
                MatchLen(g, source, match.start) = best
                  => g = match.group \/ Rank(match.group) < Rank(g)

\* the scan stands at "10.5", where both FLOAT and INTEGER match
C14_Witness ==
    /\ pc = "loop"
    /\ match.group = "FLOAT"
    /\ MatchINTEGER(source, match.start) > 0
    /\ MatchINTEGER(source, match.start) < match.end - match.start

\* C15 (Emitted tokens are stable): every step leaves the token list as it
\* was or appends exactly one token at its end; the tokens already in the
\* list keep their kind, lexeme, line and column and their order, and none
\* is removed.
C15_TokensStable ==
    [][/\ Len(tokens') \in {Len(tokens), Len(tokens) + 1}
       /\ SubSeq(tokens', 1, Len(tokens)) = tokens]_vars

\* the scan is under way with two or more tokens already appended
C15_Witness ==
    /\ pc = "loop"
    /\ match # NoMatch
    /\ Len(tokens) >= 2

\* C16 (Repeated analyze() is idempotent): whenever an analyze() call has
\* returned, the first or a later one, the token list is the list the first
\* call returned: it holds exactly one EOF token, which is last, and nothing
\* of an earlier call is carried into it.
C16_RepeatIdempotent ==
    pc = "returned" =>
       /\ tokens = firstReturned
       /\ Cardinality({i \in 1..Len(tokens) : tokens[i].type = "EOF"}) = 1
       /\ tokens[Len(tokens)].type = "EOF"

\* C17 (Diagnostic total): whenever print_tokens() has printed, before
\* analyze(), after one call or after several, the 'Total Tokens' number is
\* the number of non-EOF tokens in the token list, which is the number of
\* rows listed.
C17_DiagnosticTotal ==
    report.printed =>
       /\ report.total = Cardinality(NonEOF)
       /\ report.rows = report.total

\* C18 (Cursor offset tracks the scan): self.position is 0 on a constructed
\* analyzer and equals the length of the source once analyze() has
\* returned, so that current_char() is then None.
C18_PositionTracksScan ==
    /\ pc = "ready" => position = 0
    /\ pc = "returned" => (position = Len(source) /\ current_char = "None")

====
